---- MODULE Spec2Model ----
(***************************************************************************)
(* github-release-monitor: the poll / detect / notify / persist cycle of   *)
(* src/unnamed/part_000 (package main), as a state machine.                *)
(*                                                                         *)
(* One process run is main(): load the config file, run one check cycle,   *)
(* then either return (interval 0) or loop on select{ticker, signal}.      *)
(* A check cycle is runCheck(): checkRepositories() fans out one goroutine *)
(* per repository entry, waits for all of them, then saveConfig().         *)
(* The environment supplies: the content of the config file, the outcome   *)
(* of every GetLatestRelease call, of every shoutrrr.Send call and of      *)
(* every os.WriteFile call, the value of GITHUB_TOKEN, the timer periods   *)
(* and the shutdown signals.                                               *)
(* A terminated run may be started again (Restart); it then loads what the *)
(* previous run left in the file.                                          *)
(*                                                                         *)
(* Spec is the whole program over the initial files of InitFiles.          *)
(* SpecInputs is the one-shot path over files whose slug and channel URL   *)
(* range over InputSlugs and InputUrls (parseSlug and the formatters).     *)
(* FairSpec is one process run under the fairness of Fairness (liveness).  *)
(***************************************************************************)
EXTENDS Integers, Sequences, FiniteSets, TLC

\* ------------------------------------------------------------------ bounds
\* Ticks the select loop may receive, over all runs together.
MaxTicks == 2
\* Process runs (the first start included).
MaxRuns == 2

\* --------------------------------------------------------------- constants
\* time.Second, in nanoseconds (time.Duration(config.Interval) * time.Second).
Second == 1000000000

\* ------------------------------------------------------------- value sets
\* Tag names a successful GetLatestRelease can yield; release.GetTagName()
\* is "" when the release carries no tag_name.
FetchTags == {"", "v1", "v2"}

\* Slugs are strings, modelled as sequences of characters.
SlugOB == <<"o", "/", "r">>
SlugNoSlash == <<"o", "r">>

UrlPlain == "slack://token@channel"
UrlTeams == "generic+powerautomate://host/flow"

\* --------------------------------------------------------- the Config type
Repo(slug, tag) == [Slug |-> slug, CurrentReleaseTag |-> tag]

Notif(url) == [RawURL |-> url]

MkConfig(token, interval, repos, notifs) ==
    [AccessToken |-> token, Interval |-> interval,
     Repositories |-> repos, Notifications |-> notifs]

\* The zero value of Config (var config Config).
ZeroConfig == MkConfig("", 0, <<>>, <<>>)

\* yaml.Marshal(config): access_token carries omitempty, the other keys are
\* always written.
Marshal(c) ==
    IF c.AccessToken = ""
    THEN [interval |-> c.Interval,
          repositories |-> [i \in DOMAIN c.Repositories |->
                              [slug |-> c.Repositories[i].Slug,
                               current_release_tag |-> c.Repositories[i].CurrentReleaseTag]],
          notifications |-> [i \in DOMAIN c.Notifications |->
                              [url |-> c.Notifications[i].RawURL]]]
    ELSE [access_token |-> c.AccessToken,
          interval |-> c.Interval,
          repositories |-> [i \in DOMAIN c.Repositories |->
                              [slug |-> c.Repositories[i].Slug,
                               current_release_tag |-> c.Repositories[i].CurrentReleaseTag]],
          notifications |-> [i \in DOMAIN c.Notifications |->
                              [url |-> c.Notifications[i].RawURL]]]

\* yaml.Unmarshal(data, &config) of a well-formed document: a key that is
\* absent leaves the zero value of its field.
Unmarshal(doc) ==
    [AccessToken |-> IF "access_token" \in DOMAIN doc THEN doc.access_token ELSE "",
     Interval |-> doc.interval,
     Repositories |-> [i \in DOMAIN doc.repositories |->
                         Repo(doc.repositories[i].slug,
                              doc.repositories[i].current_release_tag)],
     Notifications |-> [i \in DOMAIN doc.notifications |->
                         Notif(doc.notifications[i].url)]]

\* The config file: "missing" (os.ReadFile fails), "malformed" (yaml.Unmarshal
\* fails), "empty" (zero bytes: yaml.Unmarshal succeeds and leaves the zero
\* Config) or "ok" with the document in doc.
File(state, doc) == [state |-> state, doc |-> doc]

\* loadConfig(filename)
loadConfig(file) ==
    IF file.state \in {"missing", "malformed"}
    THEN [err |-> TRUE, config |-> ZeroConfig]
    ELSE IF file.state = "empty"
    THEN [err |-> FALSE, config |-> ZeroConfig]
    ELSE [err |-> FALSE, config |-> Unmarshal(file.doc)]

\* The outcomes of saveConfig(filename, config): os.WriteFile either writes
\* the whole document (ok), fails before touching the file ("unchanged"), or
\* fails after truncating it ("truncated": O_TRUNC is applied on open, the
\* file is left with zero bytes).
SaveOutcomes == {"ok", "unchanged", "truncated"}

\* Mutation of saveConfig: the document is written without the entries' tags
\* (as if current_release_tag were not serialised).
saveConfig_NoTags(file, c, outcome) ==
    IF outcome = "ok"
    THEN File("ok", Marshal([c EXCEPT !.Repositories =
                 [i \in DOMAIN c.Repositories |-> Repo(c.Repositories[i].Slug, "")]]))
    ELSE IF outcome = "truncated" THEN File("empty", Marshal(ZeroConfig))
    ELSE file

saveConfig(file, c, outcome) ==
    IF outcome = "ok" THEN File("ok", Marshal(c))
    ELSE IF outcome = "truncated" THEN File("empty", Marshal(ZeroConfig))
    ELSE file

\* ------------------------------------------------------------- parseSlug
\* Position of the first "/" in s, 0 when there is none.
FirstSlash(s) ==
    IF \E i \in 1..Len(s) : s[i] = "/"
    THEN CHOOSE i \in 1..Len(s) : s[i] = "/" /\ \A j \in 1..(i - 1) : s[j] # "/"
    ELSE 0

\* strings.SplitN(s, "/", 2)
SplitN2(s) ==
    IF FirstSlash(s) = 0 THEN <<s>>
    ELSE <<SubSeq(s, 1, FirstSlash(s) - 1), SubSeq(s, FirstSlash(s) + 1, Len(s))>>

parseSlug(slug) ==
    LET parts == SplitN2(slug)
    IN  IF Len(parts) # 2
        THEN [owner |-> <<>>, repo |-> <<>>, err |-> TRUE]
        ELSE [owner |-> parts[1], repo |-> parts[2], err |-> FALSE]

\* ----------------------------------------------------------- the messages
\* A string given as a sequence of characters (a slug), as a string.
RECURSIVE Str(_)
Str(s) == IF s = <<>> THEN "" ELSE s[1] \o Str(Tail(s))

\* strings.HasPrefix(s, prefix)
HasPrefix(s, prefix) ==
    Len(s) >= Len(prefix) /\ SubSeq(s, 1, Len(prefix)) = prefix

\* notifyNewRelease, line 209: fmt.Sprintf("New release for %s: %s", slug, tagName)
DefaultMessage(slug, tagName) == "New release for " \o slug \o ": " \o tagName

\* The format string of formatTeamsPowerAutomateMessage (lines 230-254), up
\* to its first %s.
CardHead ==
    "{\n"
    \o "\t\t\"type\": \"message\",\n"
    \o "\t\t\"attachments\": [{\n"
    \o "\t\t\t\"contentType\": \"application/vnd.microsoft.card.adaptive\",\n"
    \o "\t\t\t\"content\": {\n"
    \o "\t\t\t\t\"type\": \"AdaptiveCard\",\n"
    \o "\t\t\t\t\"version\": \"1.2\",\n"
    \o "\t\t\t\t\"body\": [{\n"
    \o "\t\t\t\t\t\"type\": \"TextBlock\",\n"
    \o "\t\t\t\t\t\"text\": \"New Release Available\",\n"
    \o "\t\t\t\t\t\"weight\": \"bolder\",\n"
    \o "\t\t\t\t\t\"size\": \"large\"\n"
    \o "\t\t\t\t},{\n"
    \o "\t\t\t\t\t\"type\": \"FactSet\",\n"
    \o "\t\t\t\t\t\"facts\": [{\n"
    \o "\t\t\t\t\t\t\"title\": \"Repository:\",\n"
    \o "\t\t\t\t\t\t\"value\": \""

\* The format string between its two %s.
CardMid ==
    "\"\n"
    \o "\t\t\t\t\t},{\n"
    \o "\t\t\t\t\t\t\"title\": \"Version:\",\n"
    \o "\t\t\t\t\t\t\"value\": \""

\* The format string after its second %s.
CardTail ==
    "\"\n"
    \o "\t\t\t\t\t}]\n"
    \o "\t\t\t\t}]\n"
    \o "\t\t\t}\n"
    \o "\t\t}]\n"
    \o "\t}"

\* formatTeamsPowerAutomateMessage(slug, tagName), lines 229-255.
formatTeamsPowerAutomateMessage(slug, tagName) ==
    CardHead \o slug \o CardMid \o tagName \o CardTail

\* Mutation of formatNotificationMessage: every URL of the generic service
\* gets the card.
formatNotificationMessage_AnyGeneric(url, slug, tagName, defaultMessage) ==
    IF HasPrefix(url, "generic")
    THEN formatTeamsPowerAutomateMessage(slug, tagName)
    ELSE defaultMessage

\* formatNotificationMessage(url, slug, tagName, defaultMessage), lines 222-227.
formatNotificationMessage(url, slug, tagName, defaultMessage) ==
    IF HasPrefix(url, "generic+powerautomate")
    THEN formatTeamsPowerAutomateMessage(slug, tagName)
    ELSE defaultMessage

\* ------------------------------------------------------- initial files
\* "v0" is a tag the file holds from an earlier time; no fetch returns it.
\* One-shot: two entries with the same slug, one never seen, two channels.
ConfigOneShot ==
    MkConfig("", 0, <<Repo(SlugOB, ""), Repo(SlugOB, "v0")>>,
             <<Notif(UrlPlain), Notif(UrlTeams)>>)

\* Daemon: one entry, never seen, one channel.
ConfigDaemon ==
    MkConfig("", 1, <<Repo(SlugOB, "")>>, <<Notif(UrlPlain)>>)

\* A negative interval: an entry whose slug has no "/" and a good one, no
\* channel.
ConfigNegative ==
    MkConfig("", -1, <<Repo(SlugNoSlash, ""), Repo(SlugOB, "v0")>>, <<>>)

\* One-shot with an access_token in the file: one entry, no channel.
ConfigToken ==
    MkConfig("cfgtok", 0, <<Repo(SlugOB, "v0")>>, <<>>)

InitConfigs == {ConfigOneShot, ConfigDaemon, ConfigNegative, ConfigToken}

\* What os.Getenv("GITHUB_TOKEN") can return: "" when the variable is unset.
EnvTokens == {"", "envtok"}

InitFiles ==
    { File(st, Marshal(ZeroConfig)) : st \in {"missing", "malformed", "empty"} }
    \cup { File("ok", Marshal(c)) : c \in InitConfigs }

\* ------------------------------------------------------------------ state
VARIABLES
    file,        \* the config file on disk
    pc,          \* main's position: "start", "cycle", "save", "mode", "select", "done"
    exit,        \* how the run ended: "", "loaderr", "oneshot", "panic", "signal"
    config,      \* *config, the in-memory Config
    task,        \* the goroutines of the cycle in flight, one per entry
    ticker,      \* time.NewTicker has been called
    tick,        \* a tick is buffered in ticker.C (capacity 1)
    sig,         \* a signal is buffered in sigChan (capacity 1)
    run,         \* number of this process run
    cycles,      \* check cycles this run has started
    ticksLeft,   \* ticks the runs may still receive (the model's bound)
    ticksRecv,   \* ticks this run's select has received
    tickDropped, \* a period elapsed while a tick was still buffered
    cycSaves,    \* saveConfig calls made by runCheck in this run
    sigSaves,    \* saveConfig calls made by the select's signal case in this run
    lastSave,    \* outcome of this run's latest saveConfig call, "none" before
    dirty,       \* a CurrentReleaseTag was written since the latest saveConfig call
    recorded,    \* per entry: updateReleaseTag has run for it in this run
    last,        \* per entry: how its check ended in the latest finished cycle of this run
    cycleErr,    \* what checkRepositories returned: "none" while it runs, "nil", "error"
    prev,        \* how the previous run ended
    env,         \* the value of GITHUB_TOKEN in the process environment, "" when unset
    client       \* the GitHub client: whether it was created, and the token it sends

vars == <<file, pc, exit, config, task, ticker, tick, sig, run, cycles, ticksLeft, ticksRecv,
          tickDropped, cycSaves, sigSaves, lastSave, dirty, recorded, last, cycleErr, prev,
          env, client>>

NoErr == [kind |-> "none", slug |-> <<>>]

\* A goroutine at its start (line 161): nothing parsed, fetched or sent yet.
NewTask(repo) ==
    [pc |-> "parse", owner |-> <<>>, repo |-> <<>>, tagName |-> "", fetched |-> FALSE,
     err |-> NoErr, fetchCalls |-> 0, auth |-> "", startTag |-> repo.CurrentReleaseTag,
     writes |-> 0, notes |-> <<>>, k |-> 1, sends |-> <<>>]

NoLast == [res |-> "none", tag |-> "", startTag |-> "", notified |-> 0, failed |-> FALSE]

\* What is kept of a finished goroutine: how its check ended.
Summary(t) ==
    [res |-> IF t.fetched THEN "ok" ELSE "err", tag |-> t.tagName,
     startTag |-> t.startTag, notified |-> Len(t.notes),
     failed |-> \E j \in DOMAIN t.sends : ~t.sends[j].ok]

NoPrev == [has |-> FALSE, exit |-> "", tags |-> <<>>, recorded |-> <<>>, saved |-> FALSE]

\* Before createGithubClient has run.
NoClient == [made |-> FALSE, token |-> ""]

Init ==
    /\ file \in InitFiles
    /\ env \in EnvTokens
    /\ client = NoClient
    /\ pc = "start"
    /\ exit = ""
    /\ config = ZeroConfig
    /\ task = <<>>
    /\ ticker = FALSE
    /\ tick = FALSE
    /\ sig = FALSE
    /\ run = 1
    /\ cycles = 0
    /\ ticksLeft = MaxTicks
    /\ ticksRecv = 0
    /\ tickDropped = FALSE
    /\ cycSaves = 0
    /\ sigSaves = 0
    /\ lastSave = "none"
    /\ dirty = FALSE
    /\ recorded = <<>>
    /\ last = <<>>
    /\ cycleErr = "none"
    /\ prev = NoPrev

\* ------------------------------------------------------------------- main
\* checkRepositories, lines 156-171: one goroutine per entry, then wg.Wait().
SpawnTasks(cfg) ==
    /\ task' = [i \in DOMAIN cfg.Repositories |-> NewTask(cfg.Repositories[i])]
    /\ cycles' = cycles + 1
    /\ cycleErr' = "none"
    /\ pc' = "cycle"

\* Mutation of createGithubClient: the token the client uses is stored in the
\* caller's Config (as if the Config were passed by pointer and completed).
createGithubClient_KeepToken(cfg, envToken) ==
    LET accessToken == IF cfg.AccessToken = "" THEN envToken ELSE cfg.AccessToken
    IN  [client |-> [made |-> TRUE, token |-> accessToken],
         config |-> [cfg EXCEPT !.AccessToken = accessToken]]

\* createGithubClient(ctx, config), lines 126-145: the client it returns (the
\* token is "" for the unauthenticated github.NewClient(nil)) and the
\* caller's Config as the call leaves it; the Config is passed by value.
createGithubClient(cfg, envToken) ==
    LET accessToken == IF cfg.AccessToken = "" THEN envToken ELSE cfg.AccessToken
    IN  [client |-> [made |-> TRUE, token |-> accessToken], config |-> cfg]

\* main, lines 42-53: load the config; on error return, else create the
\* client and start the initial check cycle.
Load ==
    /\ pc = "start"
    /\ LET r == loadConfig(file)
           c == createGithubClient(r.config, env)
       IN  IF r.err
           THEN /\ pc' = "done"
                /\ exit' = "loaderr"
                /\ UNCHANGED <<config, task, cycles, recorded, last, cycleErr, client>>
           ELSE /\ client' = c.client
                /\ config' = c.config
                /\ SpawnTasks(c.config)
                /\ recorded' = [i \in DOMAIN c.config.Repositories |-> FALSE]
                /\ last' = [i \in DOMAIN c.config.Repositories |-> NoLast]
                /\ exit' = exit
    /\ UNCHANGED <<file, ticker, tick, sig, run, ticksLeft, ticksRecv, tickDropped,
                   cycSaves, sigSaves, lastSave, dirty, prev, env>>

\* ------------------------------------------------- the per-entry goroutine
\* The outcomes of client.Repositories.GetLatestRelease: an error, or a
\* release whose GetTagName() is one of FetchTags.
FetchOutcomes ==
    {[err |-> TRUE, tag |-> ""]} \cup {[err |-> FALSE, tag |-> t] : t \in FetchTags}

\* Mutation of updateReleaseTag: the notification is sent but the entry is not
\* written.
updateReleaseTag_NoAssign(repo, tagName) ==
    IF repo.CurrentReleaseTag # tagName
    THEN [repo |-> repo, notify |-> TRUE]
    ELSE [repo |-> repo, notify |-> FALSE]

\* Mutation of updateReleaseTag: an entry never seen before is recorded
\* silently.
updateReleaseTag_QuietFirst(repo, tagName) ==
    IF repo.CurrentReleaseTag # tagName
    THEN [repo |-> [repo EXCEPT !.CurrentReleaseTag = tagName],
          notify |-> repo.CurrentReleaseTag # ""]
    ELSE [repo |-> repo, notify |-> FALSE]

\* Mutation of updateReleaseTag: the entry is replaced by a new Repository
\* value that holds the tag only.
updateReleaseTag_FreshEntry(repo, tagName) ==
    IF repo.CurrentReleaseTag # tagName
    THEN [repo |-> Repo(<<>>, tagName), notify |-> TRUE]
    ELSE [repo |-> repo, notify |-> FALSE]

\* updateReleaseTag(repo, tagName, notifications), lines 201-206: the entry
\* as it is left, and whether notifyNewRelease is called.
updateReleaseTag(repo, tagName) ==
    IF repo.CurrentReleaseTag # tagName
    THEN [repo |-> [repo EXCEPT !.CurrentReleaseTag = tagName], notify |-> TRUE]
    ELSE [repo |-> repo, notify |-> FALSE]

\* Mutation of TaskStart: a goroutine that ends on the slug error never calls
\* wg.Done() (as if the call were not deferred).
TaskStart_NoDoneOnError(i) ==
    /\ pc = "cycle"
    /\ i \in DOMAIN task
    /\ task[i].pc = "parse"
    /\ LET p == parseSlug(config.Repositories[i].Slug)
       IN  IF p.err
           THEN task' = [task EXCEPT ![i].pc = "returned",
                           ![i].err = [kind |-> "slug", slug |-> config.Repositories[i].Slug]]
           ELSE task' = [task EXCEPT ![i].pc = "fetch", ![i].owner = p.owner,
                           ![i].repo = p.repo, ![i].fetchCalls = @ + 1,
                           ![i].auth = client.token]
    /\ UNCHANGED <<file, pc, exit, config, ticker, tick, sig, run, cycles, ticksLeft, ticksRecv,
                   tickDropped, cycSaves, sigSaves, lastSave, dirty, recorded, last, cycleErr, prev,
                   env, client>>

\* checkRepository, lines 178-183: parseSlug; on error the goroutine reports
\* it and ends, else GetLatestRelease is called.
TaskStart(i) ==
    /\ pc = "cycle"
    /\ i \in DOMAIN task
    /\ task[i].pc = "parse"
    /\ LET p == parseSlug(config.Repositories[i].Slug)
       IN  IF p.err
           THEN task' = [task EXCEPT ![i].pc = "done",
                           ![i].err = [kind |-> "slug", slug |-> config.Repositories[i].Slug]]
           ELSE task' = [task EXCEPT ![i].pc = "fetch", ![i].owner = p.owner,
                           ![i].repo = p.repo, ![i].fetchCalls = @ + 1,
                           ![i].auth = client.token]
    /\ UNCHANGED <<file, pc, exit, config, ticker, tick, sig, run, cycles, ticksLeft, ticksRecv,
                   tickDropped, cycSaves, sigSaves, lastSave, dirty, recorded, last, cycleErr, prev,
                   env, client>>

\* Mutation of checkRepository: the fetch error is returned, but the tag of
\* the failed call (the empty string) is compared and recorded all the same.
checkRepository_UpdateOnFetchErr(repo, o) ==
    [repo |-> updateReleaseTag(repo, o.tag).repo,
     notify |-> updateReleaseTag(repo, o.tag).notify,
     err |-> IF o.err THEN [kind |-> "fetch", slug |-> repo.Slug] ELSE NoErr]

\* checkRepository, lines 183-190, once GetLatestRelease has returned o: the
\* entry as it is left, whether notifyNewRelease is called, and the error
\* returned.
checkRepository(repo, o) ==
    IF o.err
    THEN [repo |-> repo, notify |-> FALSE, err |-> [kind |-> "fetch", slug |-> repo.Slug]]
    ELSE [repo |-> updateReleaseTag(repo, o.tag).repo,
          notify |-> updateReleaseTag(repo, o.tag).notify,
          err |-> NoErr]

\* Mutation of TaskFetched: the fetched tag is recorded by slug, in every
\* entry that carries the slug of the checked one.
TaskFetched_BySlug(i) ==
    /\ pc = "cycle"
    /\ i \in DOMAIN task
    /\ task[i].pc = "fetch"
    /\ \E o \in FetchOutcomes :
         LET r == checkRepository(config.Repositories[i], o)
         IN  /\ config' = [config EXCEPT !.Repositories =
                   [j \in DOMAIN config.Repositories |->
                      IF config.Repositories[j].Slug = config.Repositories[i].Slug /\ ~o.err
                      THEN [config.Repositories[j] EXCEPT !.CurrentReleaseTag = o.tag]
                      ELSE config.Repositories[j]]]
             /\ recorded' = [recorded EXCEPT ![i] = @ \/ ~o.err]
             /\ dirty' = (dirty \/ r.repo # config.Repositories[i])
             /\ task' = [task EXCEPT
                   ![i].tagName = o.tag,
                   ![i].fetched = ~o.err,
                   ![i].err = r.err,
                   ![i].writes = IF r.repo # config.Repositories[i] THEN @ + 1 ELSE @,
                   ![i].notes = IF r.notify
                                THEN Append(@, [slug |-> r.repo.Slug, tag |-> o.tag])
                                ELSE @,
                   ![i].pc = IF r.notify /\ Len(config.Notifications) > 0
                             THEN "send" ELSE "done"]
    /\ UNCHANGED <<file, pc, exit, ticker, tick, sig, run, cycles, ticksLeft, ticksRecv,
                   tickDropped, cycSaves, sigSaves, lastSave, last, cycleErr, prev,
      env, client>>

\* GetLatestRelease returns in goroutine i: checkRepository goes on (lines
\* 184-190); on a change the head of notifyNewRelease (lines 209-210) builds
\* and prints the message for (slug, tagName). The goroutine ends here unless
\* there are channels to send to.
TaskFetched(i) ==
    /\ pc = "cycle"
    /\ i \in DOMAIN task
    /\ task[i].pc = "fetch"
    /\ \E o \in FetchOutcomes :
         LET r == checkRepository(config.Repositories[i], o)
         IN  /\ config' = [config EXCEPT !.Repositories[i] = r.repo]
             /\ recorded' = [recorded EXCEPT ![i] = @ \/ ~o.err]
             /\ dirty' = (dirty \/ r.repo # config.Repositories[i])
             /\ task' = [task EXCEPT
                   ![i].tagName = o.tag,
                   ![i].fetched = ~o.err,
                   ![i].err = r.err,
                   ![i].writes = IF r.repo # config.Repositories[i] THEN @ + 1 ELSE @,
                   ![i].notes = IF r.notify
                                THEN Append(@, [slug |-> r.repo.Slug, tag |-> o.tag])
                                ELSE @,
                   ![i].pc = IF r.notify /\ Len(config.Notifications) > 0
                             THEN "send" ELSE "done"]
    /\ UNCHANGED <<file, pc, exit, ticker, tick, sig, run, cycles, ticksLeft, ticksRecv,
                   tickDropped, cycSaves, sigSaves, lastSave, last, cycleErr, prev,
      env, client>>

\* Mutation of TaskSend: a failed send puts the entry back to the tag it had
\* before the check.
TaskSend_Rollback(i) ==
    /\ pc = "cycle"
    /\ i \in DOMAIN task
    /\ task[i].pc = "send"
    /\ \E ok \in BOOLEAN :
         /\ task' = [task EXCEPT
               ![i].sends = Append(@, [url |-> config.Notifications[task[i].k].RawURL,
                 msg |-> formatNotificationMessage(
                           config.Notifications[task[i].k].RawURL,
                           Str(task[i].notes[1].slug), task[i].notes[1].tag,
                           DefaultMessage(Str(task[i].notes[1].slug),
                                          task[i].notes[1].tag)),
                 ok |-> ok]),
               ![i].k = @ + 1,
               ![i].pc = IF task[i].k = Len(config.Notifications) THEN "done" ELSE "send"]
         /\ config' = IF ok THEN config
                       ELSE [config EXCEPT !.Repositories[i].CurrentReleaseTag =
                                              task[i].startTag]
    /\ UNCHANGED <<file, pc, exit, ticker, tick, sig, run, cycles, ticksLeft, ticksRecv,
                   tickDropped, cycSaves, sigSaves, lastSave, dirty, recorded, last,
                   cycleErr, prev, env, client>>

\* Mutation of TaskSend: a failed send ends the loop over the channels.
TaskSend_StopOnFailure(i) ==
    /\ pc = "cycle"
    /\ i \in DOMAIN task
    /\ task[i].pc = "send"
    /\ \E ok \in BOOLEAN :
         task' = [task EXCEPT
            ![i].sends = Append(@, [url |-> config.Notifications[task[i].k].RawURL,
                 msg |-> formatNotificationMessage(
                           config.Notifications[task[i].k].RawURL,
                           Str(task[i].notes[1].slug), task[i].notes[1].tag,
                           DefaultMessage(Str(task[i].notes[1].slug),
                                          task[i].notes[1].tag)),
                 ok |-> ok]),
            ![i].k = @ + 1,
            ![i].pc = IF task[i].k = Len(config.Notifications) \/ ~ok
                      THEN "done" ELSE "send"]
    /\ UNCHANGED <<file, pc, exit, config, ticker, tick, sig, run, cycles, ticksLeft, ticksRecv,
                   tickDropped, cycSaves, sigSaves, lastSave, dirty, recorded, last, cycleErr, prev,
                   env, client>>

\* notifyNewRelease, lines 212-219: one iteration of the loop over the
\* channels; shoutrrr.Send succeeds or fails, a failure is only logged.
TaskSend(i) ==
    /\ pc = "cycle"
    /\ i \in DOMAIN task
    /\ task[i].pc = "send"
    /\ \E ok \in BOOLEAN :
         task' = [task EXCEPT
            ![i].sends = Append(@, [url |-> config.Notifications[task[i].k].RawURL,
                 msg |-> formatNotificationMessage(
                           config.Notifications[task[i].k].RawURL,
                           Str(task[i].notes[1].slug), task[i].notes[1].tag,
                           DefaultMessage(Str(task[i].notes[1].slug),
                                          task[i].notes[1].tag)),
                 ok |-> ok]),
            ![i].k = @ + 1,
            ![i].pc = IF task[i].k = Len(config.Notifications) THEN "done" ELSE "send"]
    /\ UNCHANGED <<file, pc, exit, config, ticker, tick, sig, run, cycles, ticksLeft, ticksRecv,
                   tickDropped, cycSaves, sigSaves, lastSave, dirty, recorded, last, cycleErr, prev,
                   env, client>>

\* ------------------------------------------------------ main, continued
\* Mutation of checkRepositoriesResult: an error is returned when a goroutine
\* reported one.
checkRepositoriesResult_AnyErr(tasks) ==
    IF \E i \in DOMAIN tasks : tasks[i].err.kind # "none" THEN "error" ELSE "nil"

\* What checkRepositories returns once wg.Wait() is over (line 174).
checkRepositoriesResult(tasks) == "nil"

\* Mutation of Wait: wg.Wait() returns as soon as one goroutine has called
\* wg.Done() (as if wg.Add(1) were called once for the whole loop).
Wait_FirstDone ==
    /\ pc = "cycle"
    /\ (task = <<>> \/ \E i \in DOMAIN task : task[i].pc = "done")
    /\ cycleErr' = checkRepositoriesResult(task)
    /\ last' = [i \in DOMAIN task |-> Summary(task[i])]
    /\ task' = <<>>
    /\ pc' = "save"
    /\ UNCHANGED <<file, exit, config, ticker, tick, sig, run, cycles, ticksLeft,
                   ticksRecv, tickDropped, cycSaves, sigSaves, lastSave, dirty, recorded, prev,
                   env, client>>

\* checkRepositories, lines 173-174: wg.Wait() returns when every goroutine
\* has called wg.Done(); runCheck goes on to saveConfig.
Wait ==
    /\ pc = "cycle"
    /\ \A i \in DOMAIN task : task[i].pc = "done"
    /\ cycleErr' = checkRepositoriesResult(task)
    /\ last' = [i \in DOMAIN task |-> Summary(task[i])]
    /\ task' = <<>>
    /\ pc' = "save"
    /\ UNCHANGED <<file, exit, config, ticker, tick, sig, run, cycles, ticksLeft,
                   ticksRecv, tickDropped, cycSaves, sigSaves, lastSave, dirty, recorded, prev,
                  env, client>>

\* Mutation of RunCheckSaves: runCheck returns without saving.
RunCheckSaves_Never(err, results) == FALSE

\* Mutation of RunCheckSaves: the save is skipped when a repository's check
\* failed.
RunCheckSaves_SkipOnFailure(err, results) ==
    \A i \in DOMAIN results : results[i].res = "ok"

\* runCheck, lines 86-95: whatever checkRepositories returned, saveConfig is
\* called once; its error is only logged.
RunCheckSaves(err, results) == TRUE

Save ==
    /\ pc = "save"
    /\ IF RunCheckSaves(cycleErr, last)
       THEN \E o \in SaveOutcomes :
              /\ file' = saveConfig(file, config, o)
              /\ lastSave' = o
              /\ dirty' = FALSE
              /\ cycSaves' = cycSaves + 1
       ELSE UNCHANGED <<file, lastSave, dirty, cycSaves>>
    /\ pc' = IF ticker THEN "select" ELSE "mode"
    /\ UNCHANGED <<exit, config, task, ticker, tick, sig, run, cycles, ticksLeft, ticksRecv, sigSaves,
                   tickDropped, recorded, last, cycleErr, prev, env, client>>

\* time.Duration(config.Interval) * time.Second, line 60.
DurationOf(interval) == interval * Second

\* main, lines 55-58: interval 0, one-shot mode.
OneShot ==
    /\ pc = "mode"
    /\ config.Interval = 0
    /\ pc' = "done"
    /\ exit' = "oneshot"
    /\ UNCHANGED <<file, config, task, ticker, tick, sig, run, cycles, ticksLeft, ticksRecv,
                   tickDropped, cycSaves, sigSaves, lastSave, dirty, recorded, last, cycleErr, prev,
                   env, client>>

\* main, line 61: time.NewTicker panics on a duration that is not positive.
NewTickerPanic ==
    /\ pc = "mode"
    /\ config.Interval # 0
    /\ DurationOf(config.Interval) <= 0
    /\ pc' = "done"
    /\ exit' = "panic"
    /\ UNCHANGED <<file, config, task, ticker, tick, sig, run, cycles, ticksLeft, ticksRecv,
                   tickDropped, cycSaves, sigSaves, lastSave, dirty, recorded, last, cycleErr, prev,
                   env, client>>

\* main, lines 60-66: the ticker is created and the loop is entered.
NewTicker ==
    /\ pc = "mode"
    /\ config.Interval # 0
    /\ DurationOf(config.Interval) > 0
    /\ ticker' = TRUE
    /\ pc' = "select"
    /\ UNCHANGED <<file, exit, config, task, tick, sig, run, cycles, ticksLeft, ticksRecv,
                   tickDropped, cycSaves, sigSaves, lastSave, dirty, recorded, last, cycleErr, prev,
                   env, client>>

\* Mutation of SelectTick: the tick is received and no check cycle is run.
SelectTick_NoCheck ==
    /\ pc = "select"
    /\ tick
    /\ ticksLeft > 0
    /\ ticksLeft' = ticksLeft - 1
    /\ tick' = FALSE
    /\ ticksRecv' = ticksRecv + 1
    /\ UNCHANGED <<file, pc, exit, config, task, ticker, sig, run, cycles, tickDropped,
                   cycSaves, sigSaves, lastSave, dirty, recorded, last, cycleErr, prev,
          env, client>>

\* main, lines 68-69: the select receives from ticker.C and runs a check
\* cycle. When a signal is buffered too, Go's select picks either case.
SelectTick ==
    /\ pc = "select"
    /\ tick
    /\ ticksLeft > 0
    /\ ticksLeft' = ticksLeft - 1
    /\ tick' = FALSE
    /\ ticksRecv' = ticksRecv + 1
    /\ SpawnTasks(config)
    /\ UNCHANGED <<file, exit, config, ticker, sig, run, tickDropped, cycSaves, sigSaves,
                   lastSave, dirty, recorded, last, prev, env, client>>

\* main, lines 70-75: the select receives from sigChan; saveConfig, return.
\* The select's third case, <-ctx.Done() (lines 76-77), is never ready: cancel
\* is called by main's deferred call only (line 37), that is after the loop.
SelectSignal ==
    /\ pc = "select"
    /\ sig
    /\ sig' = FALSE
    /\ \E o \in SaveOutcomes :
         /\ file' = saveConfig(file, config, o)
         /\ lastSave' = o
    /\ sigSaves' = sigSaves + 1
    /\ dirty' = FALSE
    /\ pc' = "done"
    /\ exit' = "signal"
    /\ UNCHANGED <<config, task, ticker, tick, run, cycles, ticksLeft, ticksRecv, tickDropped,
                   cycSaves, recorded, last, cycleErr, prev, env, client>>

\* ------------------------------------------------------- the environment
\* A period of the ticker elapses: the tick is buffered in ticker.C, or
\* dropped when one is buffered already (the runtime's non-blocking send).
\* A drop is recorded when main is busy in runCheck; a select that is ready
\* receives a buffered tick before the next period ends.
TickerFire ==
    /\ ticker
    /\ pc # "done"
    /\ IF tick
       THEN /\ pc \in {"cycle", "save"}
            /\ ~tickDropped
            /\ tickDropped' = TRUE
            /\ tick' = tick
       ELSE /\ tick' = TRUE
            /\ tickDropped' = tickDropped
    /\ UNCHANGED <<file, pc, exit, config, task, ticker, sig, run, cycles, ticksLeft,
                   ticksRecv, cycSaves, sigSaves, lastSave, dirty, recorded, last,
                   cycleErr, prev, env, client>>

\* SIGINT or SIGTERM is delivered: signal.Notify's non-blocking send buffers
\* it in sigChan (capacity 1); a further signal while one is buffered is lost.
Signal ==
    /\ pc # "done"
    /\ ~sig
    /\ sig' = TRUE
    /\ UNCHANGED <<file, pc, exit, config, task, ticker, tick, run, cycles, ticksLeft, ticksRecv,
                   tickDropped, cycSaves, sigSaves, lastSave, dirty, recorded, last, cycleErr, prev,
                   env, client>>

\* The process is started again after it ended: a fresh main() over the
\* file as the ended run left it.
Restart ==
    /\ pc = "done"
    /\ run < MaxRuns
    /\ prev' = [has |-> TRUE,
                exit |-> exit,
                tags |-> [i \in DOMAIN recorded |->
                            IF recorded[i] THEN config.Repositories[i].CurrentReleaseTag
                            ELSE ""],
                recorded |-> recorded,
                saved |-> (lastSave = "ok")]
    /\ run' = run + 1
    /\ pc' = "start"
    /\ exit' = ""
    /\ config' = ZeroConfig
    /\ task' = <<>>
    /\ ticker' = FALSE
    /\ tick' = FALSE
    /\ sig' = FALSE
    /\ cycles' = 0
    /\ ticksRecv' = 0
    /\ tickDropped' = FALSE
    /\ cycSaves' = 0
    /\ sigSaves' = 0
    /\ lastSave' = "none"
    /\ dirty' = FALSE
    /\ recorded' = <<>>
    /\ last' = <<>>
    /\ cycleErr' = "none"
    /\ client' = NoClient
    /\ UNCHANGED <<file, ticksLeft, env>>

Next ==
    \/ Load
    \/ \E i \in 1..2 : TaskStart(i)
    \/ \E i \in 1..2 : TaskFetched(i)
    \/ \E i \in 1..2 : TaskSend(i)
    \/ Wait
    \/ Save
    \/ OneShot
    \/ NewTickerPanic
    \/ NewTicker
    \/ SelectTick
    \/ SelectSignal
    \/ TickerFire
    \/ Signal
    \/ Restart

Spec == Init /\ [][Next]_vars

\* ------------------------------------------------------------- fairness
\* What the scheduling of the program guarantees: main and every goroutine
\* go on when they can (each GetLatestRelease and each shoutrrr.Send call
\* returns), and a select that finds the signal ready again and again ends
\* up taking it, since Go's select chooses among its ready cases uniformly
\* at random. Nothing is assumed of the environment: ticks, signals and
\* restarts may or may not happen.
Fairness ==
    /\ WF_vars(Load)
    /\ \A i \in 1..2 : WF_vars(TaskStart(i))
    /\ \A i \in 1..2 : WF_vars(TaskFetched(i))
    /\ \A i \in 1..2 : WF_vars(TaskSend(i))
    /\ WF_vars(Wait)
    /\ WF_vars(Save)
    /\ WF_vars(OneShot)
    /\ WF_vars(NewTickerPanic)
    /\ WF_vars(NewTicker)
    /\ SF_vars(SelectSignal)

\* One process run, from its start to its end: Next without Restart.
NextRun ==
    \/ Load
    \/ \E i \in 1..2 : TaskStart(i)
    \/ \E i \in 1..2 : TaskFetched(i)
    \/ \E i \in 1..2 : TaskSend(i)
    \/ Wait
    \/ Save
    \/ OneShot
    \/ NewTickerPanic
    \/ NewTicker
    \/ SelectTick
    \/ SelectSignal
    \/ TickerFire
    \/ Signal

FairSpec == Init /\ [][NextRun]_vars /\ Fairness

\* ------------------------------------------ one-shot runs over wider inputs
\* parseSlug and formatNotificationMessage are pure functions of the slug and
\* of the channel's URL. SpecInputs runs the one-shot path of main over files
\* that hold one entry and one channel, the slug and the URL drawn from the
\* sets below.
InputSlugs ==
    { <<"a", "/", "b">>, <<"/", "b">>, <<"a", "/">>, <<"/">>,
      <<"a", "/", "b", "/", "c">>, <<"a", "/", "/", "b">>, <<"a", "b">>, <<>> }

InputUrls ==
    { "", "generic", "generic+powerautomat", "generic+powerautomate",
      "generic+powerautomate://host/flow", "Generic+powerautomate://host/flow",
      "xgeneric+powerautomate://host/flow", "teams://generic+powerautomate",
      "slack://token@channel" }

InputFiles ==
    { File("ok", Marshal(MkConfig("", 0, <<Repo(s, "")>>, <<Notif(u)>>))) :
        s \in InputSlugs, u \in InputUrls }

InitInputs ==
    /\ file \in InputFiles
    /\ env = ""
    /\ client = NoClient
    /\ pc = "start"
    /\ exit = ""
    /\ config = ZeroConfig
    /\ task = <<>>
    /\ ticker = FALSE
    /\ tick = FALSE
    /\ sig = FALSE
    /\ run = 1
    /\ cycles = 0
    /\ ticksLeft = MaxTicks
    /\ ticksRecv = 0
    /\ tickDropped = FALSE
    /\ cycSaves = 0
    /\ sigSaves = 0
    /\ lastSave = "none"
    /\ dirty = FALSE
    /\ recorded = <<>>
    /\ last = <<>>
    /\ cycleErr = "none"
    /\ prev = NoPrev

NextInputs ==
    \/ Load
    \/ TaskStart(1)
    \/ TaskFetched(1)
    \/ TaskSend(1)
    \/ Wait
    \/ Save
    \/ OneShot

SpecInputs == InitInputs /\ [][NextInputs]_vars

\* ===================================================================
\* Properties
\* ===================================================================

\* The entry of goroutine i as it is in memory now.
EntryTag(i) == config.Repositories[i].CurrentReleaseTag

C2_Idempotent ==
    \A i \in DOMAIN task :
        task[i].fetched =>
            /\ EntryTag(i) = task[i].tagName
            /\ Len(task[i].notes) = (IF task[i].startTag # task[i].tagName THEN 1 ELSE 0)
            /\ (last[i].res = "ok" /\ last[i].tag = task[i].tagName)
                 => (task[i].notes = <<>> /\ task[i].sends = <<>>)

\* C2 witness: two checks in a row fetched "v1"; the first notified, the
\* second did not.
C2_Witness ==
    /\ cycles = 2
    /\ \E i \in DOMAIN task :
         /\ last[i].res = "ok"
         /\ last[i].tag = "v1"
         /\ last[i].notified = 1
         /\ task[i].pc = "done"
         /\ task[i].fetched
         /\ task[i].tagName = "v1"
         /\ task[i].notes = <<>>

\* C3, as stated: in the very first cycle, an entry whose tag is empty gets
\* exactly one notification, carrying the fetched tag, for every tag a
\* successful fetch returns.
C3_FirstObservationAnyTag ==
    \A i \in DOMAIN task :
        (~prev.has /\ cycles = 1 /\ task[i].fetched /\ task[i].startTag = "")
        => task[i].notes = <<[slug |-> config.Repositories[i].Slug, tag |-> task[i].tagName]>>

\* C3, amended: an entry whose tag is empty gets exactly one notification,
\* carrying the fetched tag, when the fetched tag is not empty; a fetch that
\* returns the empty tag notifies nobody and leaves the entry empty.
C3_FirstObservation ==
    \A i \in DOMAIN task :
        (task[i].fetched /\ task[i].startTag = "")
        => IF task[i].tagName # ""
           THEN /\ task[i].notes = <<[slug |-> config.Repositories[i].Slug,
                                      tag |-> task[i].tagName]>>
                /\ EntryTag(i) = task[i].tagName
           ELSE /\ task[i].notes = <<>>
                /\ EntryTag(i) = ""

\* C3 witness: the first check of a never-seen entry fetched "v1" and
\* notified once.
C3_Witness ==
    /\ ~prev.has
    /\ cycles = 1
    /\ \E i \in DOMAIN task :
         /\ task[i].startTag = ""
         /\ task[i].fetched
         /\ task[i].tagName = "v1"
         /\ Len(task[i].notes) = 1
         /\ task[i].notes[1].tag = "v1"

\* C4: when checkRepositories has returned, it has returned nil; every entry
\* whose check failed holds the tag it had when the cycle began, and every
\* entry whose fetch succeeded holds the tag its own fetch returned. While
\* the goroutines run, each entry is in one of these two conditions already,
\* whatever the other goroutines have done, and the cycle is never stuck: a
\* goroutine can take a step or wg.Wait() can return.
C4_FanOutIsolation ==
    /\ pc = "save" =>
         /\ cycleErr = "nil"
         /\ DOMAIN last = DOMAIN config.Repositories
         /\ \A i \in DOMAIN last :
              /\ last[i].res \in {"ok", "err"}
              /\ last[i].res = "err" => EntryTag(i) = last[i].startTag
              /\ last[i].res = "ok" => EntryTag(i) = last[i].tag
    /\ pc = "cycle" =>
         /\ DOMAIN task = DOMAIN config.Repositories
         /\ \A i \in DOMAIN task :
              EntryTag(i) = (IF task[i].fetched THEN task[i].tagName ELSE task[i].startTag)
         /\ ENABLED (Wait \/ \E i \in DOMAIN task :
                                TaskStart(i) \/ TaskFetched(i) \/ TaskSend(i))

\* C4 witness: a cycle over two entries is over; the first entry's fetch
\* failed, the second's succeeded and changed its tag.
C4_Witness ==
    /\ pc = "save"
    /\ cycleErr = "nil"
    /\ Len(last) = 2
    /\ last[1].res = "err"
    /\ parseSlug(config.Repositories[1].Slug).err = FALSE
    /\ EntryTag(1) = last[1].startTag
    /\ last[2].res = "ok"
    /\ last[2].startTag = "v0"
    /\ EntryTag(2) = "v2"

\* C5: a goroutine that ended on a parse error made no fetch call, wrote
\* nothing and notified nobody; one that ended on a fetch error returns an
\* error carrying its slug, wrote nothing and notified nobody; an entry is
\* written only by a check whose fetch succeeded.
C5_FailedCheckKeepsState ==
    \A i \in DOMAIN task :
        /\ task[i].err.kind = "slug" =>
             /\ task[i].fetchCalls = 0
             /\ task[i].pc = "done"
        /\ task[i].err.kind = "fetch" =>
             /\ task[i].fetchCalls = 1
             /\ task[i].err.slug = config.Repositories[i].Slug
             /\ task[i].pc = "done"
        /\ ~task[i].fetched =>
             /\ EntryTag(i) = task[i].startTag
             /\ task[i].writes = 0
             /\ task[i].notes = <<>>
             /\ task[i].sends = <<>>
        /\ task[i].writes > 0 => (task[i].fetched /\ task[i].writes = 1)

\* C5 witness: in one cycle, one goroutine ended on a parse error and
\* another on a fetch error, its entry still at "v0".
C5_Witness ==
    \E i, j \in DOMAIN task :
        /\ task[i].err.kind = "slug"
        /\ task[j].err.kind = "fetch"
        /\ task[j].startTag = "v0"
        /\ EntryTag(j) = "v0"

\* C6: while a goroutine is sending, and after any of its sends has failed,
\* its entry holds the new tag; an entry whose notification met a failed send
\* in the previous cycle holds that cycle's tag, and a check that fetches this
\* tag again does not notify.
C6_UpdatedBeforeDispatch ==
    /\ \A i \in DOMAIN task :
         /\ (task[i].pc = "send" \/ task[i].sends # <<>>) =>
              /\ EntryTag(i) = task[i].tagName
              /\ task[i].writes = 1
         /\ (last[i].res = "ok" /\ last[i].failed
               /\ task[i].fetched /\ task[i].tagName = last[i].tag) =>
              (task[i].notes = <<>> /\ task[i].sends = <<>>)
    /\ pc \in {"save", "mode", "select"} =>
         \A i \in DOMAIN last : (last[i].res = "ok" /\ last[i].failed) => EntryTag(i) = last[i].tag

\* C6 witness: the previous cycle's notification of "v1" met a failed send;
\* this cycle fetched "v1" again and did not notify.
C6_Witness ==
    /\ cycles >= 2
    /\ \E i \in DOMAIN task :
         /\ last[i].res = "ok"
         /\ last[i].failed
         /\ last[i].tag = "v1"
         /\ task[i].pc = "done"
         /\ task[i].fetched
         /\ task[i].tagName = "v1"
         /\ task[i].notes = <<>>

\* The config was loaded: main is past line 48.
Loaded == pc # "start" /\ exit # "loaderr"

C8_NoCycleAfterSignal == [][(ticker /\ sig) => cycles' <= cycles]_vars

\* C9: when a run that loaded its config has ended, no entry was written
\* since the latest saveConfig call, and when that call succeeded the file
\* holds the in-memory state.
C9_PersistBeforeExit ==
    (pc = "done" /\ Loaded) =>
        /\ ~dirty
        /\ lastSave # "none"
        /\ lastSave = "ok" =>
             /\ file = File("ok", Marshal(config))
             /\ loadConfig(file) = [err |-> FALSE, config |-> config]

\* C9 witness: a run ended on a signal after a cycle had written "v2"; the
\* last save succeeded and the file holds "v2".
C9_Witness ==
    /\ pc = "done"
    /\ exit = "signal"
    /\ lastSave = "ok"
    /\ \E i \in DOMAIN config.Repositories :
         /\ EntryTag(i) = "v2"
         /\ last[i].res = "ok"
         /\ file.doc.repositories[i].current_release_tag = "v2"

\* C10: every cycle's runCheck makes exactly one saveConfig call, after
\* checkRepositories and whether or not checks failed; whatever that call
\* returned, the entries keep the tags the cycle left, and a daemon run ends
\* on a signal only.
C10_SaveAfterEveryCycle ==
    /\ pc \in {"cycle", "save"} => cycSaves = cycles - 1
    /\ pc \in {"mode", "select"} =>
         /\ cycSaves = cycles
         /\ lastSave # "none"
         /\ ~dirty
         /\ \A i \in DOMAIN last : last[i].res = "ok" => EntryTag(i) = last[i].tag
    /\ (pc = "done" /\ Loaded) => cycSaves = cycles
    /\ (pc = "done" /\ ticker) => exit = "signal"

\* C10 witness: in a daemon run the first cycle's save failed; the run went
\* on, the second cycle's check failed, the entry still holds the first
\* cycle's tag and runCheck is about to save again.
C10_Witness ==
    /\ ticker
    /\ pc = "save"
    /\ cycles = 2
    /\ cycSaves = 1
    /\ lastSave = "unchanged"
    /\ \E i \in DOMAIN last :
         /\ last[i].res = "err"
         /\ EntryTag(i) = "v1"
         /\ file.doc.repositories[i].current_release_tag = ""

\* C11: for a detected change the sends go to the configured channels in list
\* order, one send per channel: what a goroutine has sent so far is a prefix
\* of the channel list, and when it has ended it is the whole list, whichever
\* sends failed; a goroutine that detected no change sends nothing; a
\* goroutine that sent returns no error, and checkRepositories returns nil
\* when sends failed.
C11_ChannelIndependence ==
    /\ \A i \in DOMAIN task :
         /\ Len(task[i].sends) <= Len(config.Notifications)
         /\ \A j \in DOMAIN task[i].sends :
              task[i].sends[j].url = config.Notifications[j].RawURL
         /\ task[i].pc = "send" => Len(task[i].sends) < Len(config.Notifications)
         /\ (task[i].pc = "done" /\ task[i].notes # <<>>) =>
              Len(task[i].sends) = Len(config.Notifications)
         /\ task[i].notes = <<>> => (task[i].sends = <<>> /\ task[i].pc # "send")
         /\ (task[i].pc = "send" \/ task[i].sends # <<>>) => task[i].err = NoErr
    /\ pc = "save" =>
         \A i \in DOMAIN last : last[i].failed => (cycleErr = "nil" /\ last[i].res = "ok")

\* C11 witness: with two channels the first send failed and the second was
\* made all the same; the goroutine ended without an error.
C11_Witness ==
    \E i \in DOMAIN task :
        /\ task[i].pc = "done"
        /\ Len(config.Notifications) = 2
        /\ Len(task[i].sends) = 2
        /\ ~task[i].sends[1].ok
        /\ task[i].sends[2].ok
        /\ task[i].sends[2].url = config.Notifications[2].RawURL
        /\ task[i].err = NoErr

\* C12: during the fan-out a step that changes entry i is the step of
\* goroutine i that follows its fetch, it is that goroutine's only write and
\* it changes no other entry and no other goroutine; each entry is compared
\* with its own tag: a goroutine whose fetch succeeded has notified exactly
\* when its own entry differed from the tag its own fetch returned, whatever
\* the entries with the same slug hold, and its entry holds that tag.
C12_DisjointWrites ==
    /\ [][ \A i \in DOMAIN config.Repositories :
             (i \in DOMAIN config'.Repositories
                /\ config'.Repositories[i] # config.Repositories[i]) =>
               /\ pc = "cycle"
               /\ task[i].pc = "fetch"
               /\ task'[i].pc # "fetch"
               /\ task[i].writes = 0
               /\ task'[i].writes = 1
               /\ \A j \in DOMAIN task \ {i} :
                    /\ task'[j] = task[j]
                    /\ config'.Repositories[j] = config.Repositories[j] ]_vars
    /\ [](\A i \in DOMAIN task :
            task[i].fetched =>
              /\ Len(task[i].notes) = (IF task[i].startTag # task[i].tagName THEN 1 ELSE 0)
              /\ \A n \in DOMAIN task[i].notes :
                   task[i].notes[n] = [slug |-> config.Repositories[i].Slug,
                                       tag |-> task[i].tagName]
              /\ EntryTag(i) = task[i].tagName)

\* C12 witness: two entries carry the same slug, one never seen and one at
\* "v0"; both goroutines fetched "v1" and each notified once.
C12_Witness ==
    /\ Len(task) = 2
    /\ config.Repositories[1].Slug = config.Repositories[2].Slug
    /\ task[1].startTag = ""
    /\ task[2].startTag = "v0"
    /\ \A i \in {1, 2} :
         /\ task[i].pc = "done"
         /\ task[i].tagName = "v1"
         /\ Len(task[i].notes) = 1
         /\ task[i].writes = 1

\* C19: the client is created exactly when the config was loaded; it sends
\* the access_token of the config when that is not empty and the value of
\* GITHUB_TOKEN otherwise, and every fetch call carries the client's token;
\* the step that creates the client leaves in memory exactly what loadConfig
\* returned; the file never holds the environment's token, and after a
\* successful save its access_token is the one of the in-memory Config
\* (absent when that is empty).
C19_CredentialPrecedence ==
    /\ [](/\ client.made = Loaded
          /\ Loaded =>
               client.token = (IF config.AccessToken # "" THEN config.AccessToken ELSE env)
          /\ \A i \in DOMAIN task :
               task[i].fetchCalls > 0 =>
                 task[i].auth = (IF config.AccessToken # "" THEN config.AccessToken ELSE env)
          /\ file.state = "ok" =>
               ("access_token" \in DOMAIN file.doc => file.doc.access_token = "cfgtok")
          /\ (Loaded /\ lastSave = "ok") =>
               /\ Unmarshal(file.doc).AccessToken = config.AccessToken
               /\ "access_token" \in DOMAIN file.doc <=> config.AccessToken # "")
    /\ [][(pc = "start" /\ pc' = "cycle") => config' = loadConfig(file).config]_vars

\* C19 witness: the file has no access_token and GITHUB_TOKEN is set; the
\* fetch call carried the environment's token, the run has saved and ended,
\* and the file still has no access_token.
C19_Witness ==
    /\ env = "envtok"
    /\ pc = "done"
    /\ exit = "oneshot"
    /\ client = [made |-> TRUE, token |-> "envtok"]
    /\ config.AccessToken = ""
    /\ lastSave = "ok"
    /\ last # <<>>
    /\ last[1].res = "ok"
    /\ file.state = "ok"
    /\ "access_token" \notin DOMAIN file.doc

\* C13: once a goroutine has parsed its slug: a slug with exactly one "/"
\* and characters on both sides is accepted and gives the two parts; a slug
\* with no "/" or with nothing on one side of its first "/" is rejected with
\* the slug error and no fetch call is made; a slug with several "/" is split
\* at the first one and the name keeps the others.
C13_ParseIdentifier ==
    \A i \in DOMAIN task :
        task[i].pc # "parse" =>
            LET s == config.Repositories[i].Slug
                slashes == {k \in 1..Len(s) : s[k] = "/"}
                first == CHOOSE k \in slashes : \A j \in slashes : k <= j
                rejected == task[i].err.kind = "slug" /\ task[i].fetchCalls = 0
                accepted == /\ task[i].err.kind # "slug"
                            /\ task[i].fetchCalls = 1
                            /\ task[i].owner = SubSeq(s, 1, first - 1)
                            /\ task[i].repo = SubSeq(s, first + 1, Len(s))
            IN  IF slashes = {} THEN rejected
                ELSE IF first = 1 \/ first = Len(s) THEN rejected
                ELSE accepted

\* C15: every message handed to the transport is, for a URL that begins with
\* "generic+powerautomate", the card: the format text around the slug and the
\* tag, holding the title "New Release Available" and the two facts with the
\* slug and the tag as values; for every other URL it is exactly
\* "New release for <slug>: <tag>".
C15_FormatterDispatch ==
    \A i \in DOMAIN task : \A j \in DOMAIN task[i].sends :
        LET u == task[i].sends[j].url
            msg == task[i].sends[j].msg
            id == Str(config.Repositories[i].Slug)
            t == task[i].tagName
            marked == \E n \in 0..Len(u) : SubSeq(u, 1, n) = "generic+powerautomate"
            Holds(sub) == \E k \in 1..(Len(msg) - Len(sub) + 1) :
                             SubSeq(msg, k, k + Len(sub) - 1) = sub
        IN  IF marked
            THEN /\ msg = CardHead \o id \o CardMid \o t \o CardTail
                 /\ Holds("\"text\": \"New Release Available\"")
                 /\ Holds("\"facts\": [{")
                 /\ Holds("\"title\": \"Repository:\",\n\t\t\t\t\t\t\"value\": \"" \o id \o "\"")
                 /\ Holds("\"title\": \"Version:\",\n\t\t\t\t\t\t\"value\": \"" \o t \o "\"")
            ELSE msg = "New release for " \o id \o ": " \o t

\* C15 witness: the send to a URL that begins with the marker carried the
\* card for the slug "a/b/c" and the tag "v2".
C15_Witness ==
    /\ pc = "cycle"
    /\ \E i \in DOMAIN task :
         /\ config.Repositories[i].Slug = <<"a", "/", "b", "/", "c">>
         /\ task[i].tagName = "v2"
         /\ task[i].pc = "done"
         /\ Len(task[i].sends) = 1
         /\ task[i].sends[1].url = "generic+powerautomate://host/flow"
         /\ task[i].sends[1].msg = formatTeamsPowerAutomateMessage("a/b/c", "v2")

\* C14: the step main takes from its start over a file that is missing,
\* unreadable, malformed or empty ends the run on the load error, with no
\* check cycle started and the file untouched; a run that ended on the load
\* error has made no cycle, no send and no save.
C14_LoadFailureFatal ==
    /\ [][(pc = "start" /\ pc' # "start"
             /\ file.state \in {"missing", "malformed", "empty"}) =>
           (/\ pc' = "done"
            /\ exit' = "loaderr"
            /\ cycles' = 0
            /\ task' = <<>>
            /\ file' = file)]_vars
    /\ [](exit = "loaderr" =>
            (cycles = 0 /\ task = <<>> /\ cycSaves = 0 /\ sigSaves = 0
               /\ lastSave = "none" /\ ~client.made))

\* C20: a run that loaded its config never ends in a panic: it ends either
\* by the one-shot return, with interval 0, or on a signal taken in the loop,
\* with any other interval; and with any interval other than 0 the run is in
\* the loop once its initial cycle is over.
C20_NoCrashForAnyInterval ==
    /\ exit # "panic"
    /\ (pc = "done" /\ Loaded) =>
         \/ (config.Interval = 0 /\ exit = "oneshot")
         \/ (config.Interval # 0 /\ exit = "signal" /\ ticker)
    /\ (Loaded /\ config.Interval # 0 /\ cycSaves >= 1 /\ pc \notin {"mode", "done"}) => ticker

\* A Config without the tags of its entries.
Frame(c) ==
    [AccessToken |-> c.AccessToken,
     Interval |-> c.Interval,
     Slugs |-> [i \in DOMAIN c.Repositories |-> c.Repositories[i].Slug],
     Notifications |-> c.Notifications]

\* C17: the step that loads leaves in memory what loadConfig returned, and
\* from then on no step of the run changes anything of the Config but the
\* CurrentReleaseTag of its entries: the access_token, the interval, the
\* number and the order of the entries, every slug and the channel list stay
\* as loaded; a successful save writes the same to the file.
C17_FrameOfCycle ==
    /\ [][(pc = "start" /\ pc' = "cycle") =>
            Frame(config') = Frame(loadConfig(file).config)]_vars
    /\ [][(pc # "start" /\ pc' # "start") => Frame(config') = Frame(config)]_vars
    /\ []((Loaded /\ lastSave = "ok") => Frame(Unmarshal(file.doc)) = Frame(config))

\* C17 witness: after three cycles and their saves a daemon run holds the
\* loaded Config with nothing changed but the entry's tag.
C17_Witness ==
    /\ pc = "select"
    /\ cycles = 3
    /\ cycSaves = 3
    /\ config # ConfigDaemon
    /\ config = [ConfigDaemon EXCEPT !.Repositories[1].CurrentReleaseTag = "v2"]

\* C18: a cycle is left only by wg.Wait() returning, with every goroutine at
\* its end; while a cycle runs no step touches the file, makes a save or
\* takes the signal; every saveConfig call, the cycle's and the signal
\* case's, is made with no goroutine alive and after a cycle that
\* checkRepositories has returned from, and what a successful call writes is
\* the Config as that cycle left it.
C18_SaveOutsideCycle ==
    /\ [][(pc = "cycle" /\ pc' # "cycle") =>
            (pc' = "save" /\ \A i \in DOMAIN task : task[i].pc = "done")]_vars
    /\ [][pc = "cycle" =>
            (/\ file' = file
             /\ cycSaves' = cycSaves
             /\ sigSaves' = sigSaves
             /\ exit' = ""
             /\ sig => sig')]_vars
    /\ [][(pc' # "start" /\ (file' # file \/ cycSaves' # cycSaves \/ sigSaves' # sigSaves)) =>
            (/\ pc \in {"save", "select"}
             /\ task = <<>>
             /\ task' = <<>>
             /\ cycleErr = "nil"
             /\ \A i \in DOMAIN last : last[i].res # "none"
             /\ config' = config
             /\ (file' # file /\ file'.state = "ok") =>
                  file' = File("ok", Marshal(config)))]_vars

\* C18 witness: in a daemon run a signal arrived and a tag was written during
\* the second cycle; the goroutines are over, the cycle's save is next and the
\* signal is still waiting.
C18_Witness ==
    /\ pc = "save"
    /\ ticker
    /\ sig
    /\ cycles = 2
    /\ dirty
    /\ task = <<>>
    /\ \E i \in DOMAIN last : last[i].res = "ok" /\ last[i].notified = 1

====
